---- MODULE Spec2Model ----
(***************************************************************************)
(* Model of frida_tools/ps.py: PSApplication (terminal negotiation,        *)
(* process listing, application listing) and the module-level comparators. *)
(*                                                                         *)
(* Text (a Python str) is a sequence of code points: "ITERM2 " is          *)
(* <<73, 84, 69, 82, 77, 50, 32>>, ESC is 27.  Python's str operations are *)
(* modelled on those sequences.  An int that int() has read (a version, a  *)
(* height, the icon size) is a record of its sign and the digits of its    *)
(* magnitude in base 2^15: PyInt(340) is [neg |-> FALSE, mag |-> <<340>>]. *)
(***************************************************************************)
EXTENDS Integers, Sequences, FiniteSets, TLC

VARIABLES
    pc,              \* where the run is: see PcValues
    options,         \* the parsed argparse.Namespace
    env,             \* _have_terminal, _plain_terminal, platform.system()
    stdin,           \* characters the terminal device will still deliver
    nread,           \* number of characters taken from stdin so far
    io,              \* sys.stdout.write / flush / completed response reads, in order
    termMode,        \* the terminal's current mode attributes
    old_attributes,  \* _detect_terminal's saved attributes
    skip,            \* _read_terminal_response: leading reads still to discard
    result,          \* _read_terminal_response: accumulated text
    ch,              \* _read_terminal_response: last value of ch
    response,        \* _detect_terminal: the first response
    height_in_pixels,\* _detect_terminal: parsed pixel height
    terminal_type,   \* self._terminal_type
    icon_size,       \* self._icon_size
    exception,       \* the exception that left _initialize or _start, if any
    enumerated,      \* how the backend call ended
    listing,         \* which handler _start dispatched to
    scope,           \* scope hint passed to the backend
    records,         \* records the handler lists (after filtering)
    icon_width,      \* the handler's icon_width
    out,             \* lines given to self._print
    logs,            \* messages given to self._log
    status,          \* messages given to self._update_status
    exits            \* codes given to self._exit

vars == << pc, options, env, stdin, nread, io, termMode, old_attributes, skip,
           result, ch, response, height_in_pixels, terminal_type, icon_size,
           exception, enumerated, listing, scope, records, icon_width, out, logs,
           status, exits >>

(***************************************************************************)
(* Bounds of the model.                                                    *)
(***************************************************************************)
MaxRecords == 3

(***************************************************************************)
(* Integers and binary64 arithmetic of lines 222-231.  An int of the       *)
(* program has no bound and a significand has 53 bits, both more than an   *)
(* integer of the model checker holds, so a natural number is kept as its  *)
(* digits in base 2^15, least significant first and without a zero at the  *)
(* top; an int is a record [neg |-> sign, mag |-> digits], zero being      *)
(* [neg |-> FALSE, mag |-> <<>>]; a non-negative float is a record         *)
(* [m |-> digits, s |-> scale] standing for m * 2^(-s).  Operators that    *)
(* walk the digits split the range in halves, which keeps the depth of     *)
(* evaluation logarithmic in the number of digits.                         *)
(***************************************************************************)
Limb == 32768

\* A natural number of the model checker as digits.
Big(n) ==
    IF n = 0 THEN <<>>
    ELSE IF n < Limb THEN << n >>
    ELSE IF n < Limb * Limb THEN << n % Limb, n \div Limb >>
    ELSE << n % Limb, (n \div Limb) % Limb, n \div (Limb * Limb) >>

Magnitude(n) == IF n < 0 THEN 0 - n ELSE n

\* An integer of the model checker as an int of the program.
PyInt(n) == [neg |-> n < 0, mag |-> Big(Magnitude(n))]

\* Digit i of x, zero beyond its length.
Digit(x, i) == IF 1 <= i /\ i <= Len(x) THEN x[i] ELSE 0

\* The highest position in lo..hi that holds a non-zero digit, 0 if none.
RECURSIVE Top(_, _, _)
Top(x, lo, hi) ==
    IF lo > hi THEN 0
    ELSE IF lo = hi THEN IF x[lo] # 0 THEN lo ELSE 0
    ELSE IF Top(x, (lo + hi) \div 2 + 1, hi) # 0 THEN Top(x, (lo + hi) \div 2 + 1, hi)
    ELSE Top(x, lo, (lo + hi) \div 2)

\* The digits without zeros at the most significant end.
Norm(x) == SubSeq(x, 1, Top(x, 1, Len(x)))

\* Digits lo..hi of x * k + carry and the carry out of them, for k and carry
\* below 2^15.
RECURSIVE MulCarry(_, _, _, _, _)
MulCarry(x, lo, hi, k, carry) ==
    IF lo > hi THEN [d |-> <<>>, c |-> carry]
    ELSE IF lo = hi
    THEN [d |-> << (x[lo] * k + carry) % Limb >>, c |-> (x[lo] * k + carry) \div Limb]
    ELSE LET low == MulCarry(x, lo, (lo + hi) \div 2, k, carry)
             high == MulCarry(x, (lo + hi) \div 2 + 1, hi, k, low.c)
         IN  [d |-> low.d \o high.d, c |-> high.c]

\* x * k + carry, for k and carry below 2^15.
MulSmall(x, k, carry) ==
    LET p == MulCarry(x, 1, Len(x), k, carry) IN Norm(p.d \o << p.c >>)

\* Digits lo..hi of x + y + carry and the carry out of them.
RECURSIVE AddCarry(_, _, _, _, _)
AddCarry(x, y, lo, hi, carry) ==
    IF lo > hi THEN [d |-> <<>>, c |-> carry]
    ELSE IF lo = hi
    THEN [d |-> << (Digit(x, lo) + Digit(y, lo) + carry) % Limb >>,
          c |-> (Digit(x, lo) + Digit(y, lo) + carry) \div Limb]
    ELSE LET low == AddCarry(x, y, lo, (lo + hi) \div 2, carry)
             high == AddCarry(x, y, (lo + hi) \div 2 + 1, hi, low.c)
         IN  [d |-> low.d \o high.d, c |-> high.c]

\* x + y
AddBig(x, y) ==
    LET n == IF Len(x) > Len(y) THEN Len(x) ELSE Len(y)
        p == AddCarry(x, y, 1, n, 0)
    IN  Norm(p.d \o << p.c >>)

\* Digits lo..hi of x - y - borrow and the borrow out of them.
RECURSIVE SubBorrow(_, _, _, _, _)
SubBorrow(x, y, lo, hi, borrow) ==
    IF lo > hi THEN [d |-> <<>>, c |-> borrow]
    ELSE IF lo = hi
    THEN [d |-> << (Digit(x, lo) - Digit(y, lo) - borrow + Limb) % Limb >>,
          c |-> IF Digit(x, lo) - Digit(y, lo) - borrow < 0 THEN 1 ELSE 0]
    ELSE LET low == SubBorrow(x, y, lo, (lo + hi) \div 2, borrow)
             high == SubBorrow(x, y, (lo + hi) \div 2 + 1, hi, low.c)
         IN  [d |-> low.d \o high.d, c |-> high.c]

\* x - y, for x >= y
SubBig(x, y) == Norm(SubBorrow(x, y, 1, Len(x), 0).d)

\* -1, 0 or 1 as digits lo..hi of x are below, equal to or above those of y.
RECURSIVE CompareDigits(_, _, _, _)
CompareDigits(x, y, lo, hi) ==
    IF lo > hi THEN 0
    ELSE IF lo = hi
    THEN IF x[lo] < y[lo] THEN 0 - 1 ELSE IF x[lo] > y[lo] THEN 1 ELSE 0
    ELSE IF CompareDigits(x, y, (lo + hi) \div 2 + 1, hi) # 0
    THEN CompareDigits(x, y, (lo + hi) \div 2 + 1, hi)
    ELSE CompareDigits(x, y, lo, (lo + hi) \div 2)

\* -1, 0 or 1 as x is below, equal to or above y.
CompareBig(x, y) ==
    IF Len(x) < Len(y) THEN 0 - 1
    ELSE IF Len(x) > Len(y) THEN 1
    ELSE CompareDigits(x, y, 1, Len(x))

\* x * Limb^n
ShiftLimbs(x, n) == IF x = <<>> THEN <<>> ELSE [i \in 1..n |-> 0] \o x

\* x times the number whose digits are digits lo..hi of y.
RECURSIVE MulDigits(_, _, _, _)
MulDigits(x, y, lo, hi) ==
    IF lo > hi THEN <<>>
    ELSE IF lo = hi THEN MulSmall(x, y[lo], 0)
    ELSE AddBig(MulDigits(x, y, lo, (lo + hi) \div 2),
                ShiftLimbs(MulDigits(x, y, (lo + hi) \div 2 + 1, hi),
                           (lo + hi) \div 2 - lo + 1))

\* x * y
MulBig(x, y) == IF x = <<>> \/ y = <<>> THEN <<>> ELSE MulDigits(x, y, 1, Len(y))

\* x * 2^n
ShiftLeft(x, n) ==
    LET limbs == n \div 15
        bits == n % 15
    IN  Norm([k \in 1..(Len(x) + limbs + 1) |->
                (Digit(x, k - limbs) % 2 ^ (15 - bits)) * 2 ^ bits
                  + Digit(x, k - limbs - 1) \div 2 ^ (15 - bits)])

\* x \div 2^n, and whether bits were lost.
ShiftRight(x, n) ==
    LET limbs == n \div 15
        bits == n % 15
    IN  [q |-> Norm([k \in 1..(IF Len(x) > limbs THEN Len(x) - limbs ELSE 0) |->
                       Digit(x, k + limbs) \div 2 ^ bits
                         + (Digit(x, k + limbs + 1) % 2 ^ bits) * 2 ^ (15 - bits)]),
         inexact |-> \/ \E i \in 1..Len(x) : i <= limbs /\ x[i] # 0
                     \/ Digit(x, limbs + 1) % 2 ^ bits # 0]

\* The number of bits of x.
BitLength(x) ==
    IF x = <<>> THEN 0
    ELSE 15 * (Len(x) - 1)
           + (CHOOSE k \in 1..15 : 2 ^ (k - 1) <= x[Len(x)] /\ x[Len(x)] < 2 ^ k)

\* Bit i of x, the least significant being bit 1.
Bit(x, i) == (Digit(x, (i - 1) \div 15 + 1) \div 2 ^ ((i - 1) % 15)) % 2

IsOdd(x) == x # <<>> /\ x[1] % 2 = 1

\* Long division, one bit at a time.  st.r is the remainder so far, below y,
\* and st.q the quotient so far; bits hi down to lo of x are brought down.
\* Once the remainder is zero and only zero bits are left to bring down, the
\* remaining quotient bits are zero.
RECURSIVE DivBits(_, _, _, _, _)
DivBits(st, x, y, hi, lo) ==
    IF st.r = <<>> /\ \A i \in lo..hi : Bit(x, i) = 0
    THEN [q |-> ShiftLeft(st.q, hi - lo + 1), r |-> <<>>]
    ELSE IF hi = lo
    THEN IF CompareBig(MulSmall(st.r, 2, Bit(x, hi)), y) >= 0
         THEN [q |-> MulSmall(st.q, 2, 1),
               r |-> SubBig(MulSmall(st.r, 2, Bit(x, hi)), y)]
         ELSE [q |-> MulSmall(st.q, 2, 0), r |-> MulSmall(st.r, 2, Bit(x, hi))]
    ELSE DivBits(DivBits(st, x, y, hi, (hi + lo) \div 2 + 1), x, y, (hi + lo) \div 2, lo)

\* Quotient and remainder of x divided by y > 0, for x < y * 2^width.
DivBig(x, y, width) ==
    DivBits([q |-> <<>>, r |-> ShiftRight(x, width).q], x, y, width, 1)

\* The smallest binary64 exponent: a float is a multiple of 2^(-1074).
MinScale == 1074

\* The least power of two that is not a binary64: 2^1024.
MaxExponent == 1024

\* The binary64 nearest to (t + f) * 2^(-scale), ties to the even
\* significand, where 0 <= f < 1 and sticky tells whether f > 0.  A
\* significand has 53 bits, fewer below 2^(-1022).
Round(t, scale, sticky) ==
    LET fine == scale - (BitLength(t) - 53)
        target == IF fine < MinScale THEN fine ELSE MinScale
        drop == scale - target
    IN  IF drop <= 0 THEN [m |-> t, s |-> scale]
        ELSE LET low == ShiftRight(t, drop - 1)
                 half == ShiftRight(low.q, 1)
                 up == half.inexact /\ (low.inexact \/ sticky \/ IsOdd(half.q))
             IN  [m |-> IF up THEN AddBig(half.q, << 1 >>) ELSE half.q, s |-> target]

\* Whether a float is beyond the largest binary64.
IsInfinite(x) == BitLength(x.m) - x.s > MaxExponent

\* The significand of the literal 1.77: 7971371340445778, i.e. 1.77 is held
\* as 7971371340445778 * 2^(-52) (float.hex: 0x1.c51eb851eb852p+0).
Coefficient == << 14418, 2621, 18350, 226 >>

\* int / int for digits a, b > 0: the binary64 nearest to the quotient.
TrueDivide(a, b) ==
    LET s == 54 - (BitLength(a) - BitLength(b))
        d == DivBig(IF s > 0 THEN ShiftLeft(a, s) ELSE a,
                    IF s < 0 THEN ShiftLeft(b, 0 - s) ELSE b, 55)
    IN  Round(d.q, s, d.r # <<>>)

\* float * 1.77: the binary64 nearest to the product.
TimesCoefficient(x) == Round(MulBig(x.m, Coefficient), x.s + 52, FALSE)

\* The integer part of a non-negative float, and whether it has a fraction.
Floor(x) == IF x.s > 0 THEN ShiftRight(x.m, x.s).q ELSE ShiftLeft(x.m, 0 - x.s)

HasFraction(x) == x.s > 0 /\ ShiftRight(x.m, x.s).inexact

\* math.ceil of a non-negative float.
Ceil(x) == IF HasFraction(x) THEN AddBig(Floor(x), << 1 >>) ELSE Floor(x)

(***************************************************************************)
(* Text helpers.                                                           *)
(***************************************************************************)
\* The characters int() strips from both ends of its argument: tab, line
\* feed, vertical tab, form feed, carriage return, space, and the non-ASCII
\* white space of Unicode (NEL, no-break space, ogham space, the U+2000
\* spaces, line and paragraph separator, narrow no-break, medium mathematical
\* and ideographic space).  The separators U+001C..U+001F are not stripped.
Whitespace ==
    (9..13) \cup {32, 133, 160, 5760} \cup (8192..8202)
      \cup {8232, 8233, 8239, 8287, 12288}

\* The code point of the digit zero of every decimal digit block int()
\* reads (Unicode 14.0, category Nd): each block is ten consecutive code
\* points for the values 0 to 9.
DecimalZeros ==
    { 48, 1632, 1776, 1984, 2406, 2534, 2662, 2790, 2918, 3046,
      3174, 3302, 3430, 3558, 3664, 3792, 3872, 4160, 4240, 6112,
      6160, 6470, 6608, 6784, 6800, 6992, 7088, 7232, 7248, 42528,
      43216, 43264, 43472, 43504, 43600, 44016, 65296, 66720, 68912, 69734,
      69872, 69942, 70096, 70384, 70736, 70864, 71248, 71360, 71472, 71904,
      72016, 72784, 73040, 73120, 92768, 92864, 93008, 120782, 120792, 120802,
      120812, 120822, 123200, 123632, 125264, 130032 }

\* Python's str < str: code-point-wise lexicographic order.
RECURSIVE StrLess(_, _)
StrLess(s, t) ==
    IF t = <<>> THEN FALSE
    ELSE IF s = <<>> THEN TRUE
    ELSE IF Head(s) = Head(t) THEN StrLess(Tail(s), Tail(t))
    ELSE Head(s) < Head(t)

\* s.startswith(p)
StartsWith(s, p) == Len(s) >= Len(p) /\ SubSeq(s, 1, Len(p)) = p

\* Index of the first occurrence of character c in s, 0 when there is none.
IndexOf(s, c) ==
    IF \A i \in 1..Len(s) : s[i] # c THEN 0
    ELSE CHOOSE i \in 1..Len(s) : s[i] = c /\ \A j \in 1..(i - 1) : s[j] # c

\* The positions of character c in s, in increasing order.
Positions(s, c) == SelectSeq([i \in 1..Len(s) |-> i], LAMBDA i : s[i] = c)

\* s.split(c, maxsplit): at most maxsplit cuts, left to right.
SplitMax(s, c, maxsplit) ==
    LET found == Positions(s, c)
        cuts == IF Len(found) > maxsplit THEN SubSeq(found, 1, maxsplit) ELSE found
    IN  [k \in 1..(Len(cuts) + 1) |->
            SubSeq(s, IF k = 1 THEN 1 ELSE cuts[k - 1] + 1,
                      IF k > Len(cuts) THEN Len(s) ELSE cuts[k] - 1)]

\* s.split(c): no limit on the cuts.
Split(s, c) == SplitMax(s, c, Len(s))

\* The stripping int() does before it reads the number.
LStrip(s) ==
    IF \A i \in 1..Len(s) : s[i] \in Whitespace THEN <<>>
    ELSE SubSeq(s, CHOOSE i \in 1..Len(s) :
                      s[i] \notin Whitespace /\ \A j \in 1..(i - 1) : s[j] \in Whitespace,
                Len(s))

RStrip(s) ==
    IF \A i \in 1..Len(s) : s[i] \in Whitespace THEN <<>>
    ELSE SubSeq(s, 1, CHOOSE i \in 1..Len(s) :
                         s[i] \notin Whitespace /\ \A j \in (i + 1)..Len(s) : s[j] \in Whitespace)

Strip(s) == RStrip(LStrip(s))

IsDigit(c) == \E z \in DecimalZeros : z <= c /\ c <= z + 9

DigitValue(c) == c - (CHOOSE z \in DecimalZeros : z <= c /\ c <= z + 9)

\* The value of a short run of digit values, most significant first.
RECURSIVE DigitsValue(_, _, _, _)
DigitsValue(ds, lo, hi, acc) ==
    IF lo > hi THEN acc ELSE DigitsValue(ds, lo + 1, hi, acc * 10 + ds[lo])

\* 10^k as digits.
RECURSIVE PowerOfTen(_)
PowerOfTen(k) ==
    IF k <= 9 THEN Big(10 ^ k)
    ELSE MulBig(PowerOfTen(k \div 2), PowerOfTen(k - k \div 2))

\* The number written by the decimal digit values lo..hi of ds, most
\* significant first.
RECURSIVE DecimalValue(_, _, _)
DecimalValue(ds, lo, hi) ==
    IF hi - lo < 9 THEN Big(DigitsValue(ds, lo, hi, 0))
    ELSE AddBig(MulBig(DecimalValue(ds, lo, (lo + hi) \div 2),
                       PowerOfTen(hi - (lo + hi) \div 2)),
                DecimalValue(ds, (lo + hi) \div 2 + 1, hi))

\* sys.get_int_max_str_digits(): the most digits int() reads.
MaxStrDigits == 4300

\* int(s): surrounding whitespace stripped, an optional sign (43 is "+", 45
\* is "-"), then decimal digits of any script in groups separated by single
\* underscores (95); anything else raises ValueError (ok = FALSE), and so do
\* more than 4300 digits, leading zeros counted.  val is the int read.
IntParse(s) ==
    LET t == Strip(s)
        signed == t # <<>> /\ Head(t) \in {43, 45}
        body == IF signed THEN Tail(t) ELSE t
        good == /\ body # <<>>
                /\ \A i \in 1..Len(body) :
                      \/ IsDigit(body[i])
                      \/ /\ body[i] = 95
                         /\ 1 < i
                         /\ i < Len(body)
                         /\ IsDigit(body[i - 1])
                         /\ IsDigit(body[i + 1])
        digits == SelectSeq(body, IsDigit)
        ok == good /\ Len(digits) <= MaxStrDigits
        mag == IF ok
               THEN DecimalValue([i \in 1..Len(digits) |-> DigitValue(digits[i])],
                                 1, Len(digits))
               ELSE <<>>
    IN  [ok |-> ok,
         val |-> [neg |-> signed /\ Head(t) = 45 /\ mag # <<>>, mag |-> mag]]

\* a >= n, for an int a and a natural number n of the model checker.
AtLeast(a, n) == ~a.neg /\ CompareBig(a.mag, Big(n)) >= 0

\* str(n) for an integer n; 48 is "0".
RECURSIVE NatStr(_)
NatStr(n) == IF n < 10 THEN << 48 + n >> ELSE NatStr(n \div 10) \o << 48 + (n % 10) >>

Str(n) == IF n < 0 THEN << 45 >> \o NatStr(0 - n) ELSE NatStr(n)

RECURSIVE Repeat(_, _)
Repeat(c, n) == IF n <= 0 THEN <<>> ELSE << c >> \o Repeat(c, n - 1)

\* "%<w>s" and "%-<w>s": padding with spaces (32).
RJust(s, w) == Repeat(32, w - Len(s)) \o s

LJust(s, w) == s \o Repeat(32, w - Len(s))

RECURSIVE MaxOf(_)
MaxOf(S) ==
    LET x == CHOOSE y \in S : TRUE IN
    IF S = {x} THEN x
    ELSE LET m == MaxOf(S \ {x}) IN IF x > m THEN x ELSE m

(***************************************************************************)
(* Terminal negotiation: PSApplication._detect_terminal and                *)
(* PSApplication._read_terminal_response.                                  *)
(***************************************************************************)
Reading == {"r1", "r2", "g1", "g2"}

PcValues == {"initialize", "usage_error", "raised", "ready", "exited", "crashed"}
               \cup Reading

\* The terminator each _read_terminal_response call was given: "n" (110) for
\* the status replies, "t" (116) for the geometry replies.
Terminator(stage) == IF stage \in {"r1", "r2"} THEN 110 ELSE 116

Write(data) == [op |-> "write", arg |-> data]

Flush == [op |-> "flush", arg |-> ""]

ReadDone(terminator) == [op |-> "read", arg |-> terminator]

\* The guard without its platform test.
ShortCircuitAnyPlatform(e) == ~e.have_terminal \/ e.plain_terminal

\* Line 201: the guard of the early return.
ShortCircuit(e) == ~e.have_terminal \/ e.plain_terminal \/ e.system # "Darwin"

\* Lines 207-210: tty.setraw and the ICANON/ECHO clearing leave the device raw.
RawMode(attributes) == "raw"

\* A finally clause that restores nothing.
FinallyModeKept(current, saved) == current

\* Line 237: what the finally clause leaves the terminal mode at.
FinallyMode(current, saved) == saved

\* The membership test with "3" left out.
NeedsSecondReadUnlessZero(r) == r # <<48>>

\* Line 217: response not in ("0", "3"), i.e. <<48>> and <<51>>.
NeedsSecondRead(r) == r \notin { <<48>>, <<51>> }

\* "ITERM2 "
ITERM2Prefix == <<73, 84, 69, 82, 77, 50, 32>>

\* The version test with > in place of >= (for an int, > 3 is >= 4).
VersionCheckAbove3(r) ==
    IF ~StartsWith(r, ITERM2Prefix) THEN "fail"
    ELSE LET version_tokens == SplitMax(SplitMax(r, 32, 1)[2], 46, 2)
             major == IntParse(version_tokens[1])
         IN  IF Len(version_tokens) < 2 THEN "fail"
             ELSE IF ~major.ok THEN "error"
             ELSE IF AtLeast(major.val, 4) THEN "pass"
             ELSE "fail"

\* Lines 220-222: "pass" when the geometry probes follow, "fail" when the code
\* falls through to ("simple", 0), "error" when int() raises ValueError.
VersionCheck(r) ==
    IF ~StartsWith(r, ITERM2Prefix) THEN "fail"
    ELSE LET version_tokens == SplitMax(SplitMax(r, 32, 1)[2], 46, 2)
             major == IntParse(version_tokens[1])
         IN  IF Len(version_tokens) < 2 THEN "fail"
             ELSE IF ~major.ok THEN "error"
             ELSE IF AtLeast(major.val, 3) THEN "pass"
             ELSE "fail"

\* Lines 225 and 229: int(text.split(";")[1]), ";" being 59; IndexError and
\* ValueError give ok = FALSE.
ParseHeight(text) ==
    LET fields == Split(text, 59) IN
    IF Len(fields) < 2 THEN [ok |-> FALSE, val |-> PyInt(0), error |-> "IndexError"]
    ELSE [ok |-> IntParse(fields[2]).ok, val |-> IntParse(fields[2]).val,
          error |-> "ValueError"]

\* Line 231: math.ceil((height_in_pixels / height_in_cells) * 1.77), for
\* height_in_cells # 0, with the two roundings of the binary64 division and
\* multiplication: 100 / 3 * 1.77 is 59.00000000000001 and gives 60.  The
\* division raises OverflowError when the quotient is beyond the largest
\* float, and math.ceil does when the product is infinite (ok = FALSE).
IconSize(hp, hc) ==
    IF hp.mag = <<>> THEN [ok |-> TRUE, val |-> PyInt(0)]
    ELSE LET quotient == TrueDivide(hp.mag, hc.mag)
             product == TimesCoefficient(quotient)
             size == IF hp.neg = hc.neg THEN Ceil(product) ELSE Floor(product)
         IN  IF IsInfinite(quotient) \/ IsInfinite(product)
             THEN [ok |-> FALSE, val |-> PyInt(0)]
             ELSE [ok |-> TRUE,
                   val |-> [neg |-> hp.neg # hc.neg /\ size # <<>>, mag |-> size]]

\* ch before the loop of _read_terminal_response has assigned it: no text.
Unassigned == << 0 - 1 >>

\* The start of a _read_terminal_response call.
BeginRead(stage) ==
    /\ pc' = stage
    /\ skip' = 2
    /\ result' = <<>>

\* Leaving the try block by return: the finally clause, then the assignment of
\* line 63.
Return(type, size) ==
    /\ termMode' = FinallyMode(termMode, old_attributes)
    /\ terminal_type' = type
    /\ icon_size' = size
    /\ UNCHANGED exception
    /\ pc' = "ready"

\* Leaving the try block by an exception: the finally clause, then the
\* exception leaves _initialize.
Raise(type) ==
    /\ termMode' = FinallyMode(termMode, old_attributes)
    /\ exception' = type
    /\ pc' = "raised"
    /\ UNCHANGED << terminal_type, icon_size >>

ListingVars == << enumerated, listing, scope, records, icon_width, out, logs, status, exits >>

\* _initialize: the option check, then _detect_terminal up to its first read.
Initialize ==
    /\ pc = "initialize"
    /\ IF options.include_all_applications /\ ~options.list_only_applications
       THEN /\ pc' = "usage_error"
            /\ UNCHANGED << io, termMode, old_attributes, skip, result,
                            terminal_type, icon_size >>
       ELSE IF ShortCircuit(env)
       THEN /\ pc' = "ready"
            /\ terminal_type' = "simple"
            /\ icon_size' = PyInt(0)
            /\ UNCHANGED << io, termMode, old_attributes, skip, result >>
       ELSE /\ old_attributes' = termMode
            /\ termMode' = RawMode(termMode)
            /\ io' = io \o << Write("ESC[1337n"), Write("ESC[5n"), Flush >>
            /\ BeginRead("r1")
            /\ UNCHANGED << terminal_type, icon_size >>
    /\ UNCHANGED << options, env, stdin, nread, ch, response, height_in_pixels,
                    exception >>
    /\ UNCHANGED ListingVars

\* Lines 240-241: one of the two discarded sys.stdin.read(1) calls; at end of
\* stream read returns "" and nothing is consumed.
ReadDiscard ==
    /\ pc \in Reading
    /\ skip > 0
    /\ skip' = skip - 1
    /\ IF stdin = <<>>
       THEN UNCHANGED << stdin, nread >>
       ELSE stdin' = Tail(stdin) /\ nread' = nread + 1
    /\ UNCHANGED << pc, options, env, io, termMode, old_attributes, result, ch,
                    response, height_in_pixels, terminal_type, icon_size, exception >>
    /\ UNCHANGED ListingVars

\* Lines 243-247: one iteration of the loop that does not break: ch is a
\* character other than the terminator, or "" (the empty text) at end of
\* stream; result += ch.
ReadMore ==
    /\ pc \in Reading
    /\ skip = 0
    /\ IF stdin = <<>>
       THEN /\ ch' = <<>>
            /\ result' = result \o ch'
            /\ UNCHANGED << stdin, nread >>
       ELSE /\ Head(stdin) # Terminator(pc)
            /\ ch' = << Head(stdin) >>
            /\ stdin' = Tail(stdin)
            /\ nread' = nread + 1
            /\ result' = result \o ch'
    /\ UNCHANGED << pc, options, env, io, termMode, old_attributes, skip,
                    response, height_in_pixels, terminal_type, icon_size, exception >>
    /\ UNCHANGED ListingVars

\* The iteration that reads the terminator (lines 244-246, 248).
ReadTerminator ==
    /\ skip = 0
    /\ stdin # <<>>
    /\ Head(stdin) = Terminator(pc)
    /\ ch' = << Head(stdin) >>
    /\ stdin' = Tail(stdin)
    /\ nread' = nread + 1

\* Line 216 returns; lines 217-218.
FirstResponse ==
    /\ pc = "r1"
    /\ ReadTerminator
    /\ response' = result
    /\ io' = Append(io, ReadDone("n"))
    /\ IF NeedsSecondRead(result)
       THEN /\ BeginRead("r2")
            /\ UNCHANGED << termMode, terminal_type, icon_size, exception >>
       ELSE /\ Return("simple", PyInt(0))
            /\ UNCHANGED << skip, result >>
    /\ UNCHANGED << options, env, old_attributes, height_in_pixels >>
    /\ UNCHANGED ListingVars

\* Line 218 returns (its value is dropped); lines 220-225 up to the read.
SecondResponse ==
    /\ pc = "r2"
    /\ ReadTerminator
    /\ LET check == VersionCheck(response) IN
       CASE check = "pass" ->
              /\ io' = io \o << ReadDone("n"), Write("ESC[14t"), Flush >>
              /\ BeginRead("g1")
              /\ UNCHANGED << termMode, terminal_type, icon_size, exception >>
         [] check = "fail" ->
              /\ io' = Append(io, ReadDone("n"))
              /\ Return("simple", PyInt(0))
              /\ UNCHANGED << skip, result >>
         [] check = "error" ->
              /\ io' = Append(io, ReadDone("n"))
              /\ Raise("ValueError")
              /\ UNCHANGED << skip, result >>
    /\ UNCHANGED << options, env, old_attributes, response, height_in_pixels >>
    /\ UNCHANGED ListingVars

\* Line 225 completes; lines 227-229 up to the read.
PixelResponse ==
    /\ pc = "g1"
    /\ ReadTerminator
    /\ LET h == ParseHeight(result) IN
       IF h.ok
       THEN /\ height_in_pixels' = h.val
            /\ io' = io \o << ReadDone("t"), Write("ESC[18t"), Flush >>
            /\ BeginRead("g2")
            /\ UNCHANGED << termMode, terminal_type, icon_size, exception >>
       ELSE /\ io' = Append(io, ReadDone("t"))
            /\ Raise(h.error)
            /\ UNCHANGED << skip, result, height_in_pixels >>
    /\ UNCHANGED << options, env, old_attributes, response >>
    /\ UNCHANGED ListingVars

\* Line 229 completes; lines 231-233.
CellResponse ==
    /\ pc = "g2"
    /\ ReadTerminator
    /\ io' = Append(io, ReadDone("t"))
    /\ LET height_in_cells == ParseHeight(result) IN
       IF ~height_in_cells.ok THEN Raise(height_in_cells.error)
       ELSE IF height_in_cells.val.mag = <<>> THEN Raise("ZeroDivisionError")
       ELSE LET size == IconSize(height_in_pixels, height_in_cells.val) IN
            IF size.ok THEN Return("iterm2", size.val) ELSE Raise("OverflowError")
    /\ UNCHANGED << options, env, old_attributes, skip, result, response,
                    height_in_pixels >>
    /\ UNCHANGED ListingVars

\* sys.stdin.read raises (an I/O failure on the terminal device): the
\* exception leaves through the finally clause.
ReadIOError ==
    /\ pc \in Reading
    /\ Raise("OSError")
    /\ UNCHANGED << options, env, stdin, nread, io, old_attributes, skip, result,
                    ch, response, height_in_pixels >>
    /\ UNCHANGED ListingVars

(***************************************************************************)
(* Records of the enumeration backend.  parameters is a mapping, kept as a *)
(* set of key/value pairs; an "icons" value is a sequence of icon          *)
(* descriptors, which may be empty.                                        *)
(***************************************************************************)
Has(parameters, key) == \E kv \in parameters : kv.key = key

\* parameters.get(key, default)
Get(parameters, key, default) ==
    IF Has(parameters, key)
    THEN (CHOOSE kv \in parameters : kv.key = key).value
    ELSE default

Icons(descriptors) == { [key |-> "icons", value |-> descriptors] }

Png(image) == [format |-> "png", image |-> image]

Rgba(image) == [format |-> "rgba", image |-> image]

\* The names and identifiers of the records: "Bar", "Foo", "com.bar",
\* "com.foo", "com.baz", "za".
Bar == <<66, 97, 114>>

Foo == <<70, 111, 111>>

ComBar == <<99, 111, 109, 46, 98, 97, 114>>

ComFoo == <<99, 111, 109, 46, 102, 111, 111>>

ComBaz == <<99, 111, 109, 46, 98, 97, 122>>

Za == <<122, 97>>

Application(pid, name, identifier, parameters) ==
    [pid |-> pid, name |-> name, identifier |-> identifier, parameters |-> parameters]

Process(pid, name, parameters) == [pid |-> pid, name |-> name, parameters |-> parameters]

\* What the device can hold: running and not-running applications, equal
\* names under different identifiers, png and non-png icons, an "icons"
\* entry with no descriptor in it.
ApplicationPool ==
    { Application(42, Bar, ComBar, Icons(<< Png("i1") >>)),
      Application(0, Foo, ComFoo, {}),
      Application(7, Bar, ComBaz, {}),
      Application(0, Bar, Za, Icons(<< Rgba("i2") >>)),
      Application(105, Foo, ComFoo, Icons(<< Rgba("i3"), Png("i4") >>)),
      Application(9, Za, Za, Icons(<<>>)) }

ProcessPool ==
    { Process(42, Bar, Icons(<< Png("i1") >>)),
      Process(7, Foo, {}),
      Process(105, Bar, {}),
      Process(1, Za, Icons(<< Rgba("i2") >>)),
      Process(9, Foo, Icons(<<>>)) }

SeqsUpTo(S, n) == UNION { [1..k -> S] : k \in 0..n }

\* The backend's use of the scope hint: "minimal" leaves the parameters out.
ScopedRecords(device, hint) ==
    IF hint = "full" THEN device
    ELSE [i \in 1..Len(device) |-> [device[i] EXCEPT !.parameters = {}]]

(***************************************************************************)
(* compare_applications, compare_processes, compute_icon_width.            *)
(***************************************************************************)
CompareNames(a, b) ==
    IF StrLess(b.name, a.name) THEN 1
    ELSE IF StrLess(a.name, b.name) THEN 0 - 1
    ELSE 0

\* A comparator that forgets the running state.
compare_applications_by_name(a, b) == CompareNames(a, b)

compare_applications(a, b) ==
    LET a_is_running == a.pid # 0
        b_is_running == b.pid # 0
    IN  IF a_is_running = b_is_running THEN CompareNames(a, b)
        ELSE IF a_is_running THEN 0 - 1
        ELSE 1

compare_processes(a, b) ==
    LET a_has_icon == Has(a.parameters, "icons")
        b_has_icon == Has(b.parameters, "icons")
    IN  IF a_has_icon = b_has_icon THEN CompareNames(a, b)
        ELSE IF a_has_icon THEN 0 - 1
        ELSE 1

compute_icon_width(item) ==
    LET icons == Get(item.parameters, "icons", <<>>) IN
    IF \E i \in 1..Len(icons) : icons[i].format = "png" THEN 4 ELSE 0

\* sorted(s, key=functools.cmp_to_key(cmp)): a stable sort that asks only
\* whether cmp(x, y) < 0; less[i][j] is that answer for x = s[i], y = s[j].
\* s[i] is placed after every element that is less than it and after every
\* earlier element that it is not less than.
Sorted(s, less) ==
    LET before(j, i) == less[j][i] \/ (j < i /\ ~less[i][j])
        rank(i) == 1 + Cardinality({ j \in 1..Len(s) : j # i /\ before(j, i) })
    IN  [k \in 1..Len(s) |-> s[CHOOSE i \in 1..Len(s) : rank(i) = k]]

SortedApplications(applications) ==
    Sorted(applications,
           [i \in 1..Len(applications) |-> [j \in 1..Len(applications) |->
              compare_applications(applications[i], applications[j]) < 0]])

SortedProcesses(processes) ==
    Sorted(processes,
           [i \in 1..Len(processes) |-> [j \in 1..Len(processes) |->
              compare_processes(processes[i], processes[j]) < 0]])

(***************************************************************************)
(* Output lines.  A text line is its cells (joined by two spaces on the    *)
(* terminal) and, for a data row, what precedes the name in the name cell. *)
(***************************************************************************)
NoIcon == [kind |-> "none", size |-> 0, image |-> ""]

\* Lines 107 and 170: the three-space placeholder.
Blank == [kind |-> "blank", size |-> 0, image |-> ""]

\* _render_icon: the inline-image escape sequence, width and height both
\* self._icon_size, carrying the base64 of the image.
RenderIcon(icon, size) == [kind |-> "image", size |-> size, image |-> icon.image]

\* Lines 105 and 168: icons[0] of an empty list raises IndexError; no icon is
\* made and the row is not printed.
IconIndexError == [kind |-> "IndexError", size |-> 0, image |-> ""]

TextLine(kind, cells, icon) == [kind |-> kind, cells |-> cells, icon |-> icon]

\* "PID", "Name", "Identifier", and json.dumps of None: "null".
PIDLabel == <<80, 73, 68>>

NameLabel == <<78, 97, 109, 101>>

IdentifierLabel == <<73, 100, 101, 110, 116, 105, 102, 105, 101, 114>>

Null == <<110, 117, 108, 108>>

Range(s) == { s[i] : i \in 1..Len(s) }

\* Lines 90-92 and 142-145.
PidColumnWidth(items) == MaxOf({ Len(Str(r.pid)) : r \in Range(items) })

IconWidth(items) == MaxOf({ compute_icon_width(r) : r \in Range(items) })

MaxNameLength(items) == MaxOf({ Len(r.name) : r \in Range(items) })

IdentifierColumnWidth(items) == MaxOf({ Len(r.identifier) : r \in Range(items) })

\* Lines 102-110 and 165-173: the icon part and the text part of a name cell.
RowIcon(item, width, size) ==
    IF width # 0
    THEN IF Has(item.parameters, "icons")
         THEN IF Get(item.parameters, "icons", <<>>) = <<>>
              THEN IconIndexError
              ELSE RenderIcon(Get(item.parameters, "icons", <<>>)[1], size)
         ELSE Blank
    ELSE NoIcon

\* The row loops of lines 101-112 and 164-178 print row after row: the rows
\* printed are those before the first row whose icon raises.
RowRaises(row) == row.icon.kind = "IndexError"

UntilRaise(rows) ==
    IF \E i \in 1..Len(rows) : RowRaises(rows[i])
    THEN SubSeq(rows, 1, (CHOOSE i \in 1..Len(rows) :
                            /\ RowRaises(rows[i])
                            /\ \A j \in 1..(i - 1) : ~RowRaises(rows[j])) - 1)
    ELSE rows

\* Whether the row loop over these records raises.
TextRaises(items) ==
    \E i \in 1..Len(items) : RowIcon(items[i], IconWidth(items), 0).kind = "IndexError"

RowName(item, width, name_width) ==
    IF width # 0
    THEN << 32 >> \o LJust(item.name, name_width)
    ELSE LJust(item.name, name_width)

\* Lines 89-112: the lines _list_processes prints for a non-empty list, up
\* to the row that raises if one does.
ProcessText(processes, size) ==
    LET pid_column_width == PidColumnWidth(processes)
        width == IconWidth(processes)
        name_column_width == width + MaxNameLength(processes)
        sorted == SortedProcesses(processes)
    IN  << TextLine("header", << RJust(PIDLabel, pid_column_width), NameLabel >>, NoIcon),
           TextLine("separator", << Repeat(45, pid_column_width),
                                    Repeat(45, name_column_width) >>, NoIcon) >>
        \o UntilRaise([i \in 1..Len(sorted) |->
              TextLine("row",
                       << RJust(Str(sorted[i].pid), pid_column_width),
                          RowName(sorted[i], width, name_column_width - width) >>,
                       RowIcon(sorted[i], width, size))])

\* Lines 116-119: the one json.dumps line of _list_processes.
ProcessJson(processes) ==
    LET sorted == SortedProcesses(processes) IN
    [kind |-> "json",
     entries |-> [i \in 1..Len(sorted) |->
                    << [key |-> "pid", value |-> Str(sorted[i].pid)],
                       [key |-> "name", value |-> sorted[i].name] >>]]

\* Lines 175-178: "-" (45) for an application that is not running.
ApplicationPidCell(pid) == IF pid = 0 THEN << 45 >> ELSE Str(pid)

\* The pid written as it is.
JsonPidAsInteger(pid) == Str(pid)

\* Line 188: app.pid or None
JsonPid(pid) == IF pid = 0 THEN Null ELSE Str(pid)

\* Lines 141-178: the lines _list_applications prints for a non-empty list,
\* up to the row that raises if one does.
ApplicationText(applications, size) ==
    LET pid_column_width == PidColumnWidth(applications)
        width == IconWidth(applications)
        name_column_width == width + MaxNameLength(applications)
        identifier_column_width == IdentifierColumnWidth(applications)
        sorted == SortedApplications(applications)
    IN  << TextLine("header", << RJust(PIDLabel, pid_column_width),
                                 LJust(NameLabel, name_column_width),
                                 LJust(IdentifierLabel, identifier_column_width) >>, NoIcon),
           TextLine("separator", << Repeat(45, pid_column_width),
                                    Repeat(45, name_column_width),
                                    Repeat(45, identifier_column_width) >>, NoIcon) >>
        \o UntilRaise([i \in 1..Len(sorted) |->
              TextLine("row",
                       << RJust(ApplicationPidCell(sorted[i].pid), pid_column_width),
                          RowName(sorted[i], width, name_column_width - width),
                          LJust(sorted[i].identifier, identifier_column_width) >>,
                       RowIcon(sorted[i], width, size))])

\* Lines 185-189: the one json.dumps line of _list_applications.
ApplicationJson(applications) ==
    LET sorted == IF Len(applications) > 0 THEN SortedApplications(applications) ELSE <<>> IN
    [kind |-> "json",
     entries |-> [i \in 1..Len(sorted) |->
                    << [key |-> "pid", value |-> JsonPid(sorted[i].pid)],
                       [key |-> "name", value |-> sorted[i].name],
                       [key |-> "identifier", value |-> sorted[i].identifier] >>]]

\* Lines 75-78.
ProcessScope(o, type) ==
    IF ~o.exclude_icons /\ o.output_format = "text" /\ type = "iterm2" THEN "full" ELSE "minimal"

\* Lines 124-127.
ApplicationScope(o, type) ==
    IF o.output_format = "text" /\ type = "iterm2" THEN "full" ELSE "minimal"

\* Line 138.
RunningOnly(applications) == SelectSeq(applications, LAMBDA app : app.pid # 0)

\* The two application messages exchanged.
EmptyDiagnosticSwapped(which, include_all) ==
    IF which = "processes" THEN "No running processes."
    ELSE IF include_all THEN "No running applications."
    ELSE "No installed applications."

\* Lines 114, 181, 183: the message logged for an empty list.
EmptyDiagnostic(which, include_all) ==
    IF which = "processes" THEN "No running processes."
    ELSE IF include_all THEN "No installed applications."
    ELSE "No running applications."

\* Lines 85-86 and 134-135: self._exit(1), then return.
FailureExits == << 1 >>

\* Lines 121 and 191: self._exit(0).
SuccessExits == << 0 >>

NegotiationVars == << options, env, stdin, nread, io, termMode, old_attributes, skip,
                      result, ch, response, height_in_pixels, terminal_type, icon_size >>

\* The handler ends by its calls of self._exit.
Exit(codes) ==
    /\ pc' = "exited"
    /\ exits' = exits \o codes
    /\ UNCHANGED exception

\* An exception leaves the handler, and with it _start: self._exit has not
\* been called.
StartRaise(type) ==
    /\ pc' = "crashed"
    /\ exception' = type
    /\ UNCHANGED exits

\* _start with list_only_applications unset: _list_processes.
ListProcesses ==
    /\ pc = "ready"
    /\ ~options.list_only_applications
    /\ listing' = "processes"
    /\ scope' = ProcessScope(options, terminal_type)
    /\ \E device \in SeqsUpTo(ProcessPool, MaxRecords), raises \in BOOLEAN :
         LET processes == ScopedRecords(device, scope') IN
         IF raises
         THEN /\ enumerated' = "raised"
              /\ status' = Append(status, "Failed to enumerate processes")
              /\ Exit(FailureExits)
              /\ UNCHANGED << records, icon_width, out, logs >>
         ELSE /\ enumerated' = "returned"
              /\ records' = processes
              /\ UNCHANGED status
              /\ IF options.output_format = "text"
                 THEN IF Len(processes) > 0
                      THEN /\ icon_width' = IconWidth(processes)
                           /\ out' = out \o ProcessText(processes, icon_size)
                           /\ UNCHANGED logs
                           /\ IF TextRaises(processes)
                              THEN StartRaise("IndexError")
                              ELSE Exit(SuccessExits)
                      ELSE /\ logs' = Append(logs, EmptyDiagnostic("processes", FALSE))
                           /\ UNCHANGED << icon_width, out >>
                           /\ Exit(SuccessExits)
                 ELSE /\ out' = Append(out, ProcessJson(processes))
                      /\ UNCHANGED << icon_width, logs >>
                      /\ Exit(SuccessExits)
    /\ UNCHANGED NegotiationVars

\* _start with list_only_applications set: _list_applications.
ListApplications ==
    /\ pc = "ready"
    /\ options.list_only_applications
    /\ listing' = "applications"
    /\ scope' = ApplicationScope(options, terminal_type)
    /\ \E device \in SeqsUpTo(ApplicationPool, MaxRecords), raises \in BOOLEAN :
         LET returned == ScopedRecords(device, scope')
             applications == IF ~options.include_all_applications
                             THEN RunningOnly(returned)
                             ELSE returned
         IN
         IF raises
         THEN /\ enumerated' = "raised"
              /\ status' = Append(status, "Failed to enumerate applications")
              /\ Exit(FailureExits)
              /\ UNCHANGED << records, icon_width, out, logs >>
         ELSE /\ enumerated' = "returned"
              /\ records' = applications
              /\ UNCHANGED status
              /\ IF options.output_format = "text"
                 THEN IF Len(applications) > 0
                      THEN /\ icon_width' = IconWidth(applications)
                           /\ out' = out \o ApplicationText(applications, icon_size)
                           /\ UNCHANGED logs
                           /\ IF TextRaises(applications)
                              THEN StartRaise("IndexError")
                              ELSE Exit(SuccessExits)
                      ELSE /\ logs' = Append(logs, EmptyDiagnostic("applications",
                                                     options.include_all_applications))
                           /\ UNCHANGED << icon_width, out >>
                           /\ Exit(SuccessExits)
                 ELSE /\ out' = Append(out, ApplicationJson(applications))
                      /\ UNCHANGED << icon_width, logs >>
                      /\ Exit(SuccessExits)
    /\ UNCHANGED NegotiationVars

(***************************************************************************)
(* Inputs: the options, the ambient terminal state, and what the terminal  *)
(* answers.                                                                *)
(***************************************************************************)
Options ==
    [list_only_applications : BOOLEAN, include_all_applications : BOOLEAN,
     output_format : {"text", "json"}, exclude_icons : BOOLEAN]

\* Lines 22-54: the options of a run with no flag given.
DefaultOptions ==
    [list_only_applications |-> FALSE, include_all_applications |-> FALSE,
     output_format |-> "text", exclude_icons |-> FALSE]

Environments ==
    { [have_terminal |-> TRUE, plain_terminal |-> FALSE, system |-> "Darwin"],
      [have_terminal |-> FALSE, plain_terminal |-> FALSE, system |-> "Darwin"],
      [have_terminal |-> TRUE, plain_terminal |-> TRUE, system |-> "Darwin"],
      [have_terminal |-> TRUE, plain_terminal |-> FALSE, system |-> "Linux"] }

Modes == {"cooked", "cbreak"}

\* One reply on the wire: the introducer ESC [ (27, 91), the body, the
\* terminator.
Reply(body, terminator) == << 27, 91 >> \o body \o << terminator >>

\* "ITERM2 3.4.5" and "ITERM2 10.0"
Iterm345 == ITERM2Prefix \o <<51, 46, 52, 46, 53>>

Iterm100 == ITERM2Prefix \o <<49, 48, 46, 48>>

\* First replies after which the code asks for no geometry: "0", "3", "",
\* "X", "ITERM2 3", "ITERM2 x", "ITERM2 2.9", "ITERM2 x.1", "ITERM2 3_.1".
PlainFirsts ==
    { <<48>>, <<51>>, <<>>, <<88>>,
      ITERM2Prefix \o <<51>>,
      ITERM2Prefix \o <<120>>,
      ITERM2Prefix \o <<50, 46, 57>>,
      ITERM2Prefix \o <<120, 46, 49>>,
      ITERM2Prefix \o <<51, 95, 46, 49>> }

VersionedFirsts == { Iterm345, Iterm100 }

\* "0" and "ITERM2 3.4.5"
Seconds == { <<48>>, Iterm345 }

\* "4;340;680", "4;x;1", "4"
PixelReplies == { <<52, 59, 51, 52, 48, 59, 54, 56, 48>>,
                  <<52, 59, 120, 59, 49>>,
                  <<52>> }

\* "8;20;80", "8;17;5", "8;0;80", "8"
CellReplies == { <<56, 59, 50, 48, 59, 56, 48>>,
                 <<56, 59, 49, 55, 59, 53>>,
                 <<56, 59, 48, 59, 56, 48>>,
                 <<56>> }

\* The four replies of a conversation that goes on to the geometry.
Exchange(first, second, pixel, cell) ==
    Reply(first, 110) \o Reply(second, 110) \o Reply(pixel, 116) \o Reply(cell, 116)

\* "ITERM2 3.4.5", "0", "4;340;680", "8;20;80"
FullStream ==
    Exchange(Iterm345, <<48>>, <<52, 59, 51, 52, 48, 59, 54, 56, 48>>,
             <<56, 59, 50, 48, 59, 56, 48>>)

\* "ITERM2 3_0.1": a major version with an underscore between its digits.
Iterm3x0 == ITERM2Prefix \o <<51, 95, 48, 46, 49>>

\* "ITERM2 ", a vertical tab, ARABIC-INDIC DIGIT THREE (U+0663), ".1".
ItermArabic3 == ITERM2Prefix \o <<11, 1635, 46, 49>>

\* Conversations with the other spellings int() reads and with heights whose
\* quotient times 1.77 rounds across an integer:
\*   "4;3_40;1" and "8;<tab>20 ;80"   340 / 20, icon size 31
\*   "4;100;1"  and "8;3;1"           100 / 3, icon size 60
\*   "4;+500;1" and "8;59;1"          500 / 59, icon size 16
\*   "4;-340;1" and "8;20;80"         -340 / 20, icon size -30
SpelledStreams ==
    { Exchange(Iterm3x0, <<48>>, <<52, 59, 51, 95, 52, 48, 59, 49>>,
               <<56, 59, 9, 50, 48, 32, 59, 56, 48>>),
      Exchange(ItermArabic3, <<48>>, <<52, 59, 49, 48, 48, 59, 49>>,
               <<56, 59, 51, 59, 49>>),
      Exchange(Iterm345, <<48>>, <<52, 59, 43, 53, 48, 48, 59, 49>>,
               <<56, 59, 53, 57, 59, 49>>),
      Exchange(Iterm345, <<48>>, <<52, 59, 45, 51, 52, 48, 59, 49>>,
               <<56, 59, 50, 48, 59, 56, 48>>) }

\* "8;20;80"
Cells20 == <<56, 59, 50, 48, 59, 56, 48>>

\* Conversations whose pixel height is beyond a machine integer:
\*   "4;4294967296;1" and "8;20;80"    2^32 / 20, icon size 380104606
\*   "4;" with 320 nines, "8;20;80"    the quotient is beyond the largest float
WideStreams ==
    { Exchange(Iterm345, <<48>>,
               <<52, 59, 52, 50, 57, 52, 57, 54, 55, 50, 57, 54, 59, 49>>, Cells20),
      Exchange(Iterm345, <<48>>, <<52, 59>> \o [i \in 1..320 |-> 57], Cells20) }

\* Conversations at the digit limit of int(): the pixel height is "340" after
\* leading zeros, 4300 digits in all (read as 340, icon size 31) and 4301
\* digits (ValueError).
LongStreams ==
    { Exchange(Iterm345, <<48>>,
               <<52, 59>> \o [i \in 1..(MaxStrDigits - 3) |-> 48] \o <<51, 52, 48>>,
               Cells20),
      Exchange(Iterm345, <<48>>,
               <<52, 59>> \o [i \in 1..(MaxStrDigits - 2) |-> 48] \o <<51, 52, 48>>,
               Cells20) }

\* Complete conversations, and every conversation cut short by end of stream.
Streams ==
    { Reply(a, 110) \o Reply(b, 110) : a \in PlainFirsts, b \in Seconds }
    \cup { Exchange(a[1], a[2], a[3], a[4]) :
             a \in VersionedFirsts \X Seconds \X PixelReplies \X CellReplies }
    \cup SpelledStreams
    \cup { SubSeq(FullStream, 1, k) : k \in 0..(Len(FullStream) - 1) }

\* With the early return taken nothing is read: two pending inputs suffice.
IdleStreams == { <<>>, FullStream }

\* The negotiation reads neither the options nor what the listing does, and
\* the listing reads neither the terminal's mode nor its replies beyond the
\* negotiated type and icon size: the second starting mode is tried under the
\* default options, as are the wide and long conversations.
Init ==
    /\ pc = "initialize"
    /\ options \in Options
    /\ env \in Environments
    /\ termMode \in IF options = DefaultOptions THEN Modes ELSE {"cooked"}
    /\ \/ stdin \in IF ShortCircuit(env) THEN IdleStreams ELSE Streams
       \/ /\ ~ShortCircuit(env)
          /\ options = DefaultOptions
          /\ termMode = "cooked"
          /\ stdin \in WideStreams \cup LongStreams
    /\ nread = 0
    /\ io = <<>>
    /\ old_attributes = "unset"
    /\ skip = 0
    /\ result = <<>>
    /\ ch = Unassigned
    /\ response = <<>>
    /\ height_in_pixels = PyInt(0)
    /\ terminal_type = "unset"
    /\ icon_size = PyInt(0)
    /\ exception = "none"
    /\ enumerated = "no"
    /\ listing = "none"
    /\ scope = "none"
    /\ records = <<>>
    /\ icon_width = 0
    /\ out = <<>>
    /\ logs = <<>>
    /\ status = <<>>
    /\ exits = <<>>

Next ==
    \/ Initialize
    \/ ReadDiscard
    \/ ReadMore
    \/ FirstResponse
    \/ SecondResponse
    \/ PixelResponse
    \/ CellResponse
    \/ ReadIOError
    \/ ListProcesses
    \/ ListApplications

Spec == Init /\ [][Next]_vars

(***************************************************************************)
(* Properties.                                                             *)
(***************************************************************************)
\* The ambient conditions under which detect() is to return at once.
NoProbe == ~env.have_terminal \/ env.plain_terminal \/ env.system # "Darwin"

\* _detect_terminal has returned.
Returned == pc \in {"ready", "exited"}

\* Negotiation is over, by return or by exception.
Ended == pc \in {"ready", "raised", "exited", "crashed"}

Probes == << Write("ESC[1337n"), Write("ESC[5n"), Flush >>

\* The longest exchange: probes, two status replies, two geometry exchanges.
Conversation ==
    Probes \o << ReadDone("n"), ReadDone("n"),
                 Write("ESC[14t"), Flush, ReadDone("t"),
                 Write("ESC[18t"), Flush, ReadDone("t") >>

\* The text after the "ITERM2 " prefix, and its part before the first dot.
VersionText(r) == SubSeq(r, Len(ITERM2Prefix) + 1, Len(r))

HasDot(r) == IndexOf(VersionText(r), 46) # 0

MajorText(r) ==
    LET v == VersionText(r)
        i == IndexOf(v, 46)
    IN  IF i = 0 THEN v ELSE SubSeq(v, 1, i - 1)

MajorAtLeast3(r) ==
    /\ StartsWith(r, ITERM2Prefix)
    /\ IntParse(MajorText(r)).ok
    /\ AtLeast(IntParse(MajorText(r)).val, 3)

\* The int n is within one of the ceiling of the real number 1.77 * hp / hc:
\* the binary64 quotient and product are each rounded, which can carry the
\* product across an integer (100 / 3 gives 60, the real ceiling being 59).
NearCeil(n, hp, hc) ==
    LET num == MulSmall(hp.mag, 177, 0)
        den == MulSmall(hc.mag, 100, 0)
        size == MulBig(n.mag, den)
    IN  IF hp.neg = hc.neg
        THEN /\ ~n.neg
             /\ CompareBig(AddBig(size, den), num) >= 0
             /\ CompareBig(size, AddBig(num, AddBig(den, den))) < 0
        ELSE /\ n.neg \/ n.mag = <<>>
             /\ CompareBig(AddBig(size, AddBig(den, den)), num) > 0
             /\ CompareBig(size, AddBig(num, den)) <= 0

\* The second field of a geometry reply as an int, when int() reads it.
Height(text) == IntParse(Split(text, 59)[2]).val

\* How many more bits the pixel height has than the cell height of the reply:
\* their quotient lies between 2^(Steepness - 1) and 2^(Steepness + 1).
Steepness(hp, text) == BitLength(hp.mag) - BitLength(Height(text).mag)

\* A padded cell without its padding spaces.
RECURSIVE Unpad(_)
Unpad(s) ==
    IF s # <<>> /\ Head(s) = 32 THEN Unpad(Tail(s))
    ELSE IF s # <<>> /\ s[Len(s)] = 32 THEN Unpad(SubSeq(s, 1, Len(s) - 1))
    ELSE s

\* A geometry reply with no second field, one that int() does not read, or
\* (for the cell reply, the one after the ESC[18t probe) a zero height.
BadGeometry(text) ==
    LET fields == Split(text, 59) IN
    \/ Len(fields) < 2
    \/ ~IntParse(fields[2]).ok
    \/ (Len(io) = Len(Conversation) /\ IntParse(fields[2]).val.mag = <<>>)

HasPng(item) ==
    \E kv \in item.parameters :
        kv.key = "icons" /\ \E j \in 1..Len(kv.value) : kv.value[j].format = "png"

Listed == pc = "exited" /\ enumerated = "returned"

\* The backend call returned and the handler has ended, by self._exit or by
\* an exception.
Started == pc \in {"exited", "crashed"} /\ enumerated = "returned"

Perms(n) == { f \in [1..n -> 1..n] : \A i, j \in 1..n : i # j => f[i] # f[j] }

\* The application listing's data, as printed: the pid, name and identifier
\* of each text row or of each JSON entry.
EmittedApplications ==
    IF options.output_format = "text"
    THEN [k \in 1..(Len(out) - 2) |->
            [pid |-> Unpad(out[k + 2].cells[1]),
             name |-> Unpad(out[k + 2].cells[2]),
             identifier |-> Unpad(out[k + 2].cells[3])]]
    ELSE [k \in 1..Len(out[1].entries) |->
            [pid |-> out[1].entries[k][1].value,
             name |-> out[1].entries[k][2].value,
             identifier |-> out[1].entries[k][3].value]]

\* A record of the later group: a not-running application, an icon-less process.
LaterGroup(item) ==
    IF listing = "applications" THEN item.pid = 0
    ELSE \A kv \in item.parameters : kv.key # "icons"

\* records[f[1]], records[f[2]], ... is in listing order: the earlier group
\* first, names ascending within a group, equal keys in the backend's order.
InListingOrder(f) ==
    \A k, l \in 1..Len(records) :
        k < l =>
            LET a == records[f[k]]
                b == records[f[l]]
            IN  /\ ~(LaterGroup(a) /\ ~LaterGroup(b))
                /\ (LaterGroup(a) = LaterGroup(b)) => ~StrLess(b.name, a.name)
                /\ (LaterGroup(a) = LaterGroup(b) /\ a.name = b.name) => f[k] < f[l]

\* C1: once negotiation has put the terminal into raw mode, every way out of
\* it (return of Simple, return of Iterm2, an exception) leaves the terminal
\* in the mode saved before negotiation; raw mode lasts only while a response
\* is being read.
C1_ModeRestored ==
    /\ pc \in Reading => (termMode = "raw" /\ old_attributes \in Modes)
    /\ (Ended /\ old_attributes # "unset") => (termMode = old_attributes /\ termMode \in Modes)

C1_Witness ==
    /\ pc = "raised"
    /\ exception = "ZeroDivisionError"
    /\ old_attributes = "cbreak"
    /\ termMode = "cbreak"

\* C2: with no terminal attached, image output suppressed, or a platform
\* other than Darwin, detect() returns Simple with icon size 0, writes no
\* probe, reads no byte and never changes the terminal mode.
C2_NoSideEffects ==
    /\ [](NoProbe => /\ io = <<>>
                     /\ nread = 0
                     /\ old_attributes = "unset"
                     /\ pc \notin Reading
                     /\ Returned => (terminal_type = "simple" /\ icon_size = PyInt(0)))
    /\ [][NoProbe => (termMode' = termMode /\ stdin' = stdin)]_vars

C2_Witness ==
    /\ env.system = "Linux"
    /\ pc = "ready"
    /\ terminal_type = "simple"
    /\ stdin = FullStream

\* C3: when the input ends while a response is being read, negotiation ends
\* as a failure with the terminal mode restored; the reader does not go on
\* reading.  (ch = <<>>, the empty text, is what a read at end of stream gives the loop.)
C3_EndOfStreamIsFatal == ch = <<>> => (pc = "raised" /\ termMode = old_attributes)

\* C4 as stated: detect() returns Iterm2 exactly for the first responses that
\* begin with "ITERM2 " and whose text before the first dot parses as an
\* integer >= 3; every other return is Simple with icon size 0.
C4_MajorDecides ==
    (Returned /\ ~NoProbe) =>
        /\ terminal_type \in {"simple", "iterm2"}
        /\ terminal_type = "iterm2" <=> MajorAtLeast3(response)
        /\ terminal_type = "simple" => icon_size = PyInt(0)

\* C4 amended: detect() returns Iterm2(icon_size) exactly for the first
\* responses that begin with "ITERM2 ", have a dot in the version text and a
\* part before the first dot that int() reads as an integer >= 3; every other
\* return is Simple with icon size 0; and with such a first response an
\* exception other than a failed read is raised only for a geometry reply
\* that lacks a second field int() reads, for a zero cell height, or
\* (OverflowError) for a pixel height at least 2^1022 times the cell height,
\* whose quotient times 1.77 may be more than a float holds.  The icon size
\* returned is within one of the ceiling of 1.77 * pixels / cells, for pixel
\* heights below 2^45, and no return has a quotient of 2^1025 or more.
C4_DottedMajorDecides ==
    /\ (Returned /\ ~NoProbe) =>
          /\ terminal_type \in {"simple", "iterm2"}
          /\ terminal_type = "iterm2" <=> (MajorAtLeast3(response) /\ HasDot(response))
          /\ terminal_type = "simple" => icon_size = PyInt(0)
          /\ terminal_type = "iterm2" =>
                /\ ~BadGeometry(result)
                /\ Steepness(height_in_pixels, result) <= 1024
                /\ Len(height_in_pixels.mag) <= 3 =>
                      NearCeil(icon_size, height_in_pixels, Height(result))
    /\ (pc = "raised" /\ exception # "OSError" /\ MajorAtLeast3(response) /\ HasDot(response))
          => \/ /\ exception \in {"ValueError", "IndexError", "ZeroDivisionError"}
                /\ BadGeometry(result)
             \/ /\ exception = "OverflowError"
                /\ Len(io) = Len(Conversation)
                /\ ~BadGeometry(result)
                /\ Steepness(height_in_pixels, result) >= 1023

C4_Witness ==
    /\ pc = "ready"
    /\ response = ItermArabic3
    /\ terminal_type = "iterm2"
    /\ height_in_pixels = PyInt(100)
    /\ icon_size = PyInt(60)

\* C5: in a text listing the icon column is 4 wide exactly when icons are not
\* excluded, the terminal is Iterm2 and some listed record has a png icon,
\* and 0 otherwise; every row carries an icon or placeholder exactly when the
\* width is 4, so none does with exclude-icons set.
C5_IconWidth ==
    (Started /\ options.output_format = "text" /\ Len(records) > 0) =>
        LET expected == IF /\ ~options.exclude_icons
                           /\ terminal_type = "iterm2"
                           /\ \E i \in 1..Len(records) : HasPng(records[i])
                        THEN 4 ELSE 0
        IN  /\ icon_width = expected
            /\ \A k \in 3..Len(out) : (out[k].icon.kind # "none") <=> (expected = 4)

\* C6: an application listing, text or JSON, shows each listed record once,
\* running applications before not-running ones whatever their names, names
\* ascending within each group, equal keys in the backend's order; a listing
\* cut short by an exception shows the first records of that order.
C6_ApplicationOrder ==
    (Started /\ listing = "applications") =>
        LET e == EmittedApplications IN
        /\ Len(e) <= Len(records)
        /\ Listed => Len(e) = Len(records)
        /\ \E f \in Perms(Len(records)) :
              /\ InListingOrder(f)
              /\ \A k \in 1..Len(e) :
                    e[k] = [pid |-> IF records[f[k]].pid # 0 THEN Str(records[f[k]].pid)
                                    ELSE IF options.output_format = "text" THEN << 45 >>
                                    ELSE Null,
                            name |-> records[f[k]].name,
                            identifier |-> records[f[k]].identifier]

C6_Witness ==
    /\ Listed
    /\ listing = "applications"
    /\ options.output_format = "text"
    /\ Len(records) = 2
    /\ records[1].pid = 0
    /\ records[1].name = Bar
    /\ records[2].pid = 105
    /\ records[2].name = Foo
    /\ Unpad(out[3].cells[1]) = Str(105)

\* C7: a backend call that raises gives one status message, exit code 1 and
\* no output or diagnostic; a backend call that returns gives exit code 0;
\* a run that reaches the listing requests exit exactly once, and no run
\* requests it more than once.
C7_ExitCodes ==
    /\ Len(exits) <= 1
    /\ pc \in {"exited", "crashed"} =>
          /\ enumerated \in {"raised", "returned"}
          /\ Len(exits) = 1
          /\ enumerated = "raised" =>
                (exits = << 1 >> /\ Len(status) = 1 /\ out = <<>> /\ logs = <<>>)
          /\ enumerated = "returned" => (exits = << 0 >> /\ status = <<>>)

\* C8: JSON mode prints one collection with one entry per listed record, in
\* the comparator's order, with the keys pid, name (and identifier for
\* applications); an application's pid is null exactly when the record's pid
\* is 0; an empty list gives an empty collection and no diagnostic.
C8_Structured ==
    (Listed /\ options.output_format = "json") =>
        /\ Len(out) = 1
        /\ out[1].kind = "json"
        /\ logs = <<>>
        /\ exits = << 0 >>
        /\ LET entries == out[1].entries
               keys == IF listing = "applications"
                       THEN << "pid", "name", "identifier" >>
                       ELSE << "pid", "name" >>
           IN  /\ Len(entries) = Len(records)
               /\ \A k \in 1..Len(entries) :
                     [i \in 1..Len(entries[k]) |-> entries[k][i].key] = keys
               /\ \E f \in Perms(Len(records)) :
                     /\ InListingOrder(f)
                     /\ \A k \in 1..Len(records) :
                           LET item == records[f[k]] IN
                           /\ entries[k][1].value =
                                 IF listing = "applications" /\ item.pid = 0
                                 THEN Null ELSE Str(item.pid)
                           /\ entries[k][2].value = item.name
                           /\ listing = "applications" =>
                                 entries[k][3].value = item.identifier

C8_Witness ==
    /\ Listed
    /\ options.output_format = "json"
    /\ listing = "applications"
    /\ Len(records) = 2
    /\ records[1].pid = 0
    /\ records[2].pid = 42
    /\ out[1].entries[1][1].value = Str(42)
    /\ out[1].entries[2][1].value = Null

\* C9: a text listing of zero records is one diagnostic line, chosen by the
\* listing and by include-all, with no header or separator; a text listing of
\* one or more records is a header, a separator and the rows, with no
\* diagnostic, also when an exception cuts the rows short.
C9_EmptyDiagnostics ==
    (Started /\ options.output_format = "text") =>
        IF Len(records) = 0
        THEN /\ out = <<>>
             /\ logs = << IF listing = "processes" THEN "No running processes."
                          ELSE IF options.include_all_applications
                          THEN "No installed applications."
                          ELSE "No running applications." >>
        ELSE /\ logs = <<>>
             /\ Len(out) >= 2
             /\ Len(out) <= Len(records) + 2
             /\ Listed => Len(out) = Len(records) + 2
             /\ out[1].kind = "header"
             /\ out[2].kind = "separator"
             /\ \A k \in 3..Len(out) : out[k].kind = "row"

C9_Witness ==
    /\ Listed
    /\ listing = "applications"
    /\ options.include_all_applications
    /\ options.output_format = "text"
    /\ records = <<>>
    /\ logs = << "No installed applications." >>

\* C10: the two capability probes are written and flushed before any byte is
\* read; a first response of exactly "0" or "3" ends negotiation as Simple
\* after that one response, with no geometry probe; any other first response
\* is followed by exactly one more n-terminated read before the decision; the
\* pixel and cell probes are written, in that order and each followed by one
\* t-terminated read, only after the second read and only for a first response
\* that passed the version test.
C10_ProbeOrder ==
    /\ Len(io) <= Len(Conversation)
    /\ io = SubSeq(Conversation, 1, Len(io))
    /\ nread > 0 => Len(io) >= Len(Probes)
    /\ Len(io) > Len(Probes) + 1 => response \notin { <<48>>, <<51>> }
    /\ Len(io) > Len(Probes) + 2 => (MajorAtLeast3(response) /\ HasDot(response))
    /\ (Returned /\ ~NoProbe) =>
          IF response \in { <<48>>, <<51>> }
          THEN /\ Len(io) = Len(Probes) + 1
               /\ nread = Len(Reply(response, 110))
               /\ terminal_type = "simple"
          ELSE \/ Len(io) = Len(Probes) + 2 /\ terminal_type = "simple"
               \/ io = Conversation /\ terminal_type = "iterm2"

C10_Witness ==
    /\ pc = "ready"
    /\ response = <<88>>
    /\ io = Probes \o << ReadDone("n"), ReadDone("n") >>
    /\ nread = Len(Reply(<<88>>, 110)) + Len(Reply(Iterm345, 110))
    /\ terminal_type = "simple"

====
